---- MODULE Spec2Model ----
(***************************************************************************)
(* node-backpack: the attributions engine (Attributions: constructor,      *)
(* attribute, render, validate, flush), the validate command of the CLI    *)
(* and the validate-with-fix orchestration of Bundle.                      *)
(*                                                                         *)
(* Two generations of the Attributions class are modelled:                 *)
(*   "versionsPath"    src/src/cli-main.ts:129-435 (licensesPath and the   *)
(*                     optional versionsPath)                              *)
(*   "encodeVersions"  src/src/api/_attributions.ts (filePath and the      *)
(*                     encodeVersions flag, versions written to            *)
(*                     <filePath>.versions.json)                           *)
(*                                                                         *)
(* A string is a sequence of symbols.  A symbol is one character, written  *)
(* as a one-character TLA+ string, or a literal of the source that the     *)
(* code only ever copies, written as one symbol.                           *)
(***************************************************************************)
EXTENDS Naturals, Integers, Sequences, FiniteSets, TLC

\* The longest list of dependencies handed to the engine.
MaxDeps == 2

VARIABLES
  config,        \* the configuration of the runs
  dependencies,  \* the dependencies handed to the engine
  project,       \* the findings of the other validators
  disk,          \* the licenses file and the versions file
  proc,          \* the running process: "none", "api" or "cli"
  attr,          \* the Attributions object of the running process
  report,        \* the report the last validation returned
  cli,           \* how the validate command ended
  last,          \* the last operation: its name, its inputs, what it detected
  fixedBefore,   \* a validate with fix completed and no input changed since
  produced       \* the documents the first construction rendered

\* The bundle pipeline of one run of the command line.
VARIABLES layout, packageDir, externalArgs, cliRun, resolver, bundle

----------------------------------------------------------------------------
(* Strings *)

UpperCase == <<"A","B","C","D","E","F","G","H","I","J","K","L","M",
               "N","O","P","Q","R","S","T","U","V","W","X","Y","Z">>
LowerCase == <<"a","b","c","d","e","f","g","h","i","j","k","l","m",
               "n","o","p","q","r","s","t","u","v","w","x","y","z">>

IsUpper(c) == \E i \in DOMAIN UpperCase : UpperCase[i] = c

LowerChar(c) ==
  IF IsUpper(c)
  THEN LowerCase[CHOOSE i \in DOMAIN UpperCase : UpperCase[i] = c]
  ELSE c

\* String.prototype.toLowerCase
ToLowerCase(s) == [i \in DOMAIN s |-> LowerChar(s[i])]

\* String.prototype.endsWith
EndsWith(s, suffix) ==
  /\ Len(s) >= Len(suffix)
  /\ SubSeq(s, Len(s) - Len(suffix) + 1, Len(s)) = suffix

RECURSIVE ReplaceCrLf(_)
\* l.replace(/\r\n/g, '\n')
ReplaceCrLf(s) ==
  IF Len(s) = 0 THEN <<>>
  ELSE IF Len(s) >= 2 /\ s[1] = "\r" /\ s[2] = "\n"
       THEN <<"\n">> \o ReplaceCrLf(SubSeq(s, 3, Len(s)))
       ELSE <<s[1]>> \o ReplaceCrLf(Tail(s))

RECURSIVE Join(_, _)
\* Array.prototype.join
Join(parts, sep) ==
  IF Len(parts) = 0 THEN <<>>
  ELSE IF Len(parts) = 1 THEN parts[1]
  ELSE parts[1] \o sep \o Join(Tail(parts), sep)

\* Primary collation order of the characters of package names and versions
\* (punctuation, then digits, then letters).
Collation == <<"_","-",".","@",
               "0","1","2","3","4","5","6","7","8","9",
               "a","b","c","d","e","f","g","h","i","j","k","l","m",
               "n","o","p","q","r","s","t","u","v","w","x","y","z">>

PrimaryWeight(c) ==
  LET l == LowerChar(c) IN
  IF \E i \in DOMAIN Collation : Collation[i] = l
  THEN CHOOSE i \in DOMAIN Collation : Collation[i] = l
  ELSE 0

\* Lower case sorts before upper case when nothing else differs.
TertiaryWeight(c) == IF IsUpper(c) THEN 1 ELSE 0

RECURSIVE CompareWeights(_, _)
CompareWeights(u, v) ==
  IF Len(u) = 0 /\ Len(v) = 0 THEN 0
  ELSE IF Len(u) = 0 THEN -1
  ELSE IF Len(v) = 0 THEN 1
  ELSE IF u[1] < v[1] THEN -1
  ELSE IF u[1] > v[1] THEN 1
  ELSE CompareWeights(Tail(u), Tail(v))

\* String.prototype.localeCompare: negative, zero or positive.
LocaleCompare(s, t) ==
  LET p == CompareWeights([i \in DOMAIN s |-> PrimaryWeight(s[i])],
                          [i \in DOMAIN t |-> PrimaryWeight(t[i])])
  IN IF p # 0 THEN p
     ELSE CompareWeights([i \in DOMAIN s |-> TertiaryWeight(s[i])],
                         [i \in DOMAIN t |-> TertiaryWeight(t[i])])

----------------------------------------------------------------------------
(* The installed dependency tree and what the license probe reports *)

NoFile == [set |-> FALSE, path |-> <<>>, text |-> <<>>]
FileAt(p, t) == [set |-> TRUE, path |-> p, text |-> t]

NoLicenses == [kind |-> "undefined", value |-> <<>>]
OneLicense(l) == [kind |-> "string", value |-> l]
ManyLicenses(ls) == [kind |-> "array", value |-> ls]

MIT == <<"M","I","T">>
mit == <<"m","i","t">>
GPL == <<"G","P","L">>
Apache == <<"A","p","a","c","h","e","-","2",".","0">>

V10 == <<"1",".","0">>
V20 == <<"2",".","0">>

\* Installed packages a dependency list is drawn from.  probe: what
\* license-checker reports for the package (ModuleInfo); global: whether the
\* run in dependenciesRoot reports it; local: whether the run in the
\* package's own directory reports it.
Installed ==
  { [name |-> <<"a">>, version |-> V10, path |-> "node_modules/a",
     global |-> TRUE, local |-> TRUE,
     probe |-> [licenses |-> OneLicense(MIT),
                licenseFile |-> FileAt(<<"L","I","C","E","N","S","E">>,
                                       <<"M","I","T","\r","\n","t","e","x","t">>),
                noticeFile |-> NoFile]],
    [name |-> <<"a">>, version |-> V10, path |-> "node_modules/b/node_modules/a",
     global |-> TRUE, local |-> TRUE,
     probe |-> [licenses |-> OneLicense(MIT),
                licenseFile |-> FileAt(<<"L","I","C","E","N","S","E">>,
                                       <<"M","I","T","\r","\n","t","e","x","t">>),
                noticeFile |-> NoFile]],
    [name |-> <<"a","1">>, version |-> V10, path |-> "node_modules/a1",
     global |-> TRUE, local |-> TRUE,
     probe |-> [licenses |-> ManyLicenses(<<mit>>),
                licenseFile |-> NoFile,
                noticeFile |-> FileAt(<<"N","O","T","I","C","E">>,
                                      <<"n","o","t","e">>)]],
    [name |-> <<"b">>, version |-> V20, path |-> "node_modules/b",
     global |-> TRUE, local |-> TRUE,
     probe |-> [licenses |-> ManyLicenses(<<Apache, MIT>>),
                licenseFile |-> FileAt(<<"R","E","A","D","M","E",".","M","D">>,
                                       <<"r","e","a","d">>),
                noticeFile |-> NoFile]],
    [name |-> <<"c">>, version |-> V10, path |-> "node_modules/b/node_modules/c",
     global |-> FALSE, local |-> TRUE,
     probe |-> [licenses |-> NoLicenses,
                licenseFile |-> FileAt(<<"L","I","C","E","N","S","E">>,
                                       <<"G","P","L","\r">>),
                noticeFile |-> NoFile]],
    [name |-> <<"d">>, version |-> V10, path |-> "node_modules/d",
     global |-> FALSE, local |-> FALSE,
     probe |-> [licenses |-> OneLicense(GPL),
                licenseFile |-> NoFile,
                noticeFile |-> NoFile]] }

\* const pkg = (d: Package) => `${d.name}@${d.version}`
pkg(d) == d.name \o <<"@">> \o d.version

\* Lists of distinct installed packages, at most n long.
RECURSIVE DepLists(_)
DepLists(n) ==
  IF n = 0 THEN { <<>> }
  ELSE LET shorter == DepLists(n - 1) IN
       shorter \cup { Append(l, p) : l \in shorter, p \in Installed }

Distinct(l) == \A i, j \in DOMAIN l : i # j => l[i].path # l[j].path

----------------------------------------------------------------------------
(* Configuration (AttributionsProps) *)

NoExclude == [set |-> FALSE, pattern |-> <<>>]

\* variant "versionsPath": versionsPath says whether props.versionsPath is set.
\* variant "encodeVersions": encodeVersions is props.encodeVersions ?? false.
Configs ==
  { [variant |-> v, versionsPath |-> s, encodeVersions |-> e,
     packageName |-> <<"consumer">>,
     allowedLicenses |-> a, exclude |-> x] :
       v \in {"versionsPath", "encodeVersions"},
       s \in BOOLEAN, e \in BOOLEAN,
       a \in { <<MIT>>, <<ToLowerCase(Apache)>> },
       x \in { NoExclude } }

\* The configurations of one generation carry no option of the other.
WellFormed(cfg) ==
  /\ cfg.variant = "versionsPath" => ~cfg.encodeVersions
  /\ cfg.variant = "encodeVersions" => ~cfg.versionsPath

\* Whether the version is part of the title and the url of a block.
VersionShown(cfg) ==
  IF cfg.variant = "versionsPath" THEN ~cfg.versionsPath ELSE cfg.encodeVersions

\* Whether flush writes a versions file beside the licenses file.
VersionsFileWritten(cfg) ==
  IF cfg.variant = "versionsPath" THEN cfg.versionsPath ELSE ~cfg.encodeVersions

\* path.relative(packageDir, licensesPath) and the versions file's name.
RelLicensesPath == <<"THIRD_PARTY_LICENSES">>
RelVersionsPath(cfg) ==
  IF cfg.variant = "versionsPath" THEN <<"THIRD_PARTY_VERSIONS">>
  ELSE RelLicensesPath \o <<".versions.json">>

----------------------------------------------------------------------------
(* Attributions.attribute *)

RootDir == "node_modules"

\* fetchInfos: the JSON map license-checker prints for the packages asked
\* for, run in cwd.  Two installed copies of one name@version are one key.
FetchInfos(cwd, packages) ==
  LET found == { p \in Installed :
                   /\ \E i \in DOMAIN packages : packages[i] = pkg(p)
                   /\ IF cwd = RootDir THEN p.global
                      ELSE p.path = cwd /\ p.local }
  IN [k \in { pkg(p) : p \in found } |->
        (CHOOSE p \in found : pkg(p) = k).probe]

\* licenseFile: dropped when its lower-cased name ends in .md
LicenseText(info) ==
  IF /\ info.licenseFile.set
     /\ ~EndsWith(ToLowerCase(info.licenseFile.path), <<".","m","d">>)
     /\ info.licenseFile.path # <<>>
  THEN [set |-> TRUE, text |-> info.licenseFile.text]
  ELSE [set |-> FALSE, text |-> <<>>]

NoticeText(info) ==
  IF info.noticeFile.set /\ info.noticeFile.path # <<>>
  THEN [set |-> TRUE, text |-> info.noticeFile.text]
  ELSE [set |-> FALSE, text |-> <<>>]

\* the licenses key comes in different types; always a list afterwards
LicensesOf(info) ==
  IF info.licenses.kind = "undefined" \/ info.licenses.value = <<>>
  THEN <<>>
  ELSE IF info.licenses.kind = "array" THEN info.licenses.value
  ELSE <<info.licenses.value>>

BaseUrl(dep) == <<"https://www.npmjs.com/package/">> \o dep.name

\* Mutant: the url carries the version whatever the configuration.
UrlAlwaysVersioned(cfg, dep) == BaseUrl(dep) \o <<"/v/">> \o dep.version

\* const url = this.versionsPath ? baseUrl : `${baseUrl}/v/${dep.version}`
Url(cfg, dep) ==
  IF VersionShown(cfg) THEN BaseUrl(dep) \o <<"/v/">> \o dep.version
  ELSE BaseUrl(dep)

Attribution(cfg, dep, info) ==
  [packageFqn |-> pkg(dep),
   packageName |-> dep.name,
   packageVersion |-> dep.version,
   url |-> Url(cfg, dep),
   licenses |-> LicensesOf(info),
   licenseText |-> LicenseText(info),
   noticeText |-> NoticeText(info)]

NoInfo == [licenses |-> NoLicenses, licenseFile |-> NoFile, noticeFile |-> NoFile]

\* Mutant: a dependency the first probe does not report is not looked for
\* in its own directory.
InfoOfNoFallback(infos, dep) ==
  LET key == pkg(dep)
  IN IF key \in DOMAIN infos
     THEN [found |-> TRUE, info |-> infos[key], probed |-> FALSE]
     ELSE [found |-> FALSE, info |-> NoInfo, probed |-> FALSE]

\* infos[key] ?? fetchInfos(dep.path, [pkg(dep)])[key]
\* probed: whether fetchInfos ran in the directory of the dependency
InfoOf(infos, dep) ==
  LET key == pkg(dep)
      own == FetchInfos(dep.path, <<key>>)
  IN IF key \in DOMAIN infos
     THEN [found |-> TRUE, info |-> infos[key], probed |-> FALSE]
     ELSE IF key \in DOMAIN own
          THEN [found |-> TRUE, info |-> own[key], probed |-> TRUE]
          ELSE [found |-> FALSE, info |-> NoInfo, probed |-> TRUE]

RECURSIVE FallbackProbes(_, _)
\* The runs of fetchInfos inside the loop over the dependencies, which ends
\* at the first dependency without information.
FallbackProbes(infos, deps) ==
  IF Len(deps) = 0 THEN <<>>
  ELSE LET looked == InfoOf(infos, Head(deps))
           run == IF looked.probed
                  THEN <<[cwd |-> Head(deps).path, packages |-> <<pkg(Head(deps))>>]>>
                  ELSE <<>>
       IN IF looked.found
          THEN run \o FallbackProbes(infos, Tail(deps))
          ELSE run

\* threw: 'Unable to locate license information for ...'
\* probes: the runs of fetchInfos, in order
Attribute(cfg, deps) ==
  IF Len(deps) = 0 THEN [threw |-> FALSE, attributions |-> <<>>, probes |-> <<>>]
  ELSE
    LET packages == [i \in DOMAIN deps |-> pkg(deps[i])]
        infos == FetchInfos(RootDir, packages)
        probes == <<[cwd |-> RootDir, packages |-> packages]>>
                    \o FallbackProbes(infos, deps)
    IN IF \E i \in DOMAIN deps : ~InfoOf(infos, deps[i]).found
       THEN [threw |-> TRUE, attributions |-> <<>>, probes |-> probes]
       ELSE [threw |-> FALSE,
             attributions |->
               [i \in DOMAIN deps |->
                  Attribution(cfg, deps[i],
                              InfoOf(infos, deps[i]).info)],
             probes |-> probes]

----------------------------------------------------------------------------
(* Attributions.render *)

ATTRIBUTION_SEPARATOR == <<"\n----------------\n">>

RECURSIVE InsertSorted(_, _)
\* x goes behind every element that does not compare greater than it
InsertSorted(x, sorted) ==
  IF Len(sorted) = 0 THEN <<x>>
  ELSE IF LocaleCompare(Head(sorted).packageFqn, x.packageFqn) <= 0
       THEN <<Head(sorted)>> \o InsertSorted(x, Tail(sorted))
       ELSE <<x>> \o sorted

RECURSIVE SortFrom(_, _)
SortFrom(rest, sorted) ==
  IF Len(rest) = 0 THEN sorted
  ELSE SortFrom(Tail(rest), InsertSorted(Head(rest), sorted))

\* Mutant: the attributions are rendered in the order they were pushed.
OrderedAsPushed(attributions) == attributions

\* Array.from(attributions.values()).sort((a1, a2) =>
\*   a1.packageFqn.localeCompare(a2.packageFqn)): a stable sort
Ordered(attributions) == SortFrom(attributions, <<>>)

Truthy(t) == t.set /\ t.text # <<>>

Title(cfg, a) ==
  IF VersionShown(cfg) THEN a.packageFqn ELSE a.packageName

FirstLicense(a) ==
  IF Len(a.licenses) = 0 THEN <<"undefined">> ELSE a.licenses[1]

HeaderLine(cfg, a) ==
  <<"** ">> \o Title(cfg, a) \o <<" - ">> \o a.url \o <<" | ">>
    \o FirstLicense(a)

\* the entries one attribution pushes to content
Block(cfg, a) ==
  <<HeaderLine(cfg, a)>>
    \o (IF Truthy(a.noticeText) THEN <<a.noticeText.text>>
        ELSE IF Truthy(a.licenseText) THEN <<a.licenseText.text>>
        ELSE <<>>)
    \o <<ATTRIBUTION_SEPARATOR>>

RECURSIVE Blocks(_, _)
Blocks(cfg, ordered) ==
  IF Len(ordered) = 0 THEN <<>>
  ELSE Block(cfg, Head(ordered)) \o Blocks(cfg, Tail(ordered))

Preamble(cfg, attributions) ==
  IF Len(attributions) > 0
  THEN << <<"The ">> \o cfg.packageName
            \o <<" package includes the following third-party software/licensing:">>,
          <<>> >>
  ELSE <<>>

\* versions[attr.packageName] = (versions[attr.packageName] ?? []) + version;
\* the object keeps its keys in insertion order
AddVersion(versions, name, version) ==
  IF \E i \in DOMAIN versions : versions[i].key = name
  THEN [i \in DOMAIN versions |->
          IF versions[i].key = name
          THEN [key |-> name, value |-> Append(versions[i].value, version)]
          ELSE versions[i]]
  ELSE Append(versions, [key |-> name, value |-> <<version>>])

RECURSIVE VersionsOf(_, _)
VersionsOf(ordered, versions) ==
  IF Len(ordered) = 0 THEN versions
  ELSE VersionsOf(Tail(ordered),
                  AddVersion(versions, Head(ordered).packageName,
                             Head(ordered).packageVersion))

Quoted(s) == <<"\"">> \o s \o <<"\"">>

\* JSON.stringify(versions, null, 2)
Stringify(versions) ==
  IF Len(versions) = 0 THEN <<"{}">>
  ELSE
    LET item(v) == <<"    ">> \o Quoted(v)
        entry(e) ==
          <<"  ">> \o Quoted(e.key) \o <<": [\n">>
            \o Join([i \in DOMAIN e.value |-> item(e.value[i])], <<",\n">>)
            \o <<"\n  ]">>
    IN <<"{\n">>
         \o Join([i \in DOMAIN versions |-> entry(versions[i])], <<",\n">>)
         \o <<"\n}">>

\* Mutant: the document is appended to what the licenses file holds.
RenderAppending(cfg, attributions) ==
  LET ordered == Ordered(attributions)
      content == Preamble(cfg, attributions) \o Blocks(cfg, ordered)
  IN [ordered |-> ordered,
      licenses |-> disk.licenses.data
                     \o Join([i \in DOMAIN content |-> ReplaceCrLf(content[i])],
                             <<"\n">>),
      versions |-> Stringify(VersionsOf(ordered, <<>>))]

Render(cfg, attributions) ==
  LET ordered == Ordered(attributions)
      content == Preamble(cfg, attributions) \o Blocks(cfg, ordered)
  IN [ordered |-> ordered,
      licenses |-> Join([i \in DOMAIN content |-> ReplaceCrLf(content[i])],
                        <<"\n">>),
      versions |-> Stringify(VersionsOf(ordered, <<>>))]

----------------------------------------------------------------------------
(* Violations and reports (ViolationType, Violation, ViolationsReport) *)

MISSING_LICENSES == "missing-licenses"
OUTDATED_LICENSES == "outdated-licenses"
MISSING_VERSIONS == "missing-versions"
OUTDATED_VERSIONS == "outdated-versions"
MISSING_NOTICE == "missing-notice"
OUTDATED_ATTRIBUTIONS == "outdated-attributions"
INVALID_LICENSE == "invalid-license"
NO_LICENSE == "no-license"
MULTIPLE_LICENSE == "multiple-license"
CIRCULAR_IMPORT == "circular-import"
MISSING_RESOURCE == "missing-resource"

\* fix: whether the violation carries a fixer (always () => this.flush()).
Violation(type, message, fix) == [type |-> type, message |-> message, fix |-> fix]

SummaryLine(v) ==
  <<"- ", v.type, ": ">> \o v.message
    \o (IF v.fix THEN <<" (fixable)">> ELSE <<>>)

\* new ViolationsReport(violations)
ViolationsReport(violations) ==
  [returned |-> TRUE,
   violations |-> violations,
   success |-> Len(violations) = 0]

\* report.summary
Summary(r) ==
  [i \in DOMAIN r.violations |-> SummaryLine(r.violations[i])]

NoReport == [returned |-> FALSE, violations |-> <<>>, success |-> FALSE]

----------------------------------------------------------------------------
(* The Attributions object *)

Absent == [exists |-> FALSE, data |-> <<>>]
Content(data) == [exists |-> TRUE, data |-> data]

\* new RegExp(props.exclude).test(d.name), for a pattern of plain characters
RegExpTest(pattern, name) ==
  \E i \in 1..(Len(name) + 1) :
    /\ i + Len(pattern) - 1 <= Len(name)
    /\ SubSeq(name, i, i + Len(pattern) - 1) = pattern

\* props.dependencies.filter(d => !props.exclude || !new RegExp(...).test(d.name))
FilterDependencies(cfg, deps) ==
  LET keep(d) == (~cfg.exclude.set) \/ (cfg.exclude.pattern = <<>>)
                   \/ ~RegExpTest(cfg.exclude.pattern, d.name)
  IN SelectSeq(deps, keep)

\* Mutant: the allow-list is kept as given.
AllowedLicensesAsGiven(cfg) == cfg.allowedLicenses

\* props.allowedLicenses.map(l => l.toLowerCase())
AllowedLicenses(cfg) ==
  [i \in DOMAIN cfg.allowedLicenses |-> ToLowerCase(cfg.allowedLicenses[i])]

NoAttributions ==
  [state |-> "none", allowedLicenses |-> <<>>, attributions |-> <<>>,
   licenses |-> <<>>, versions |-> <<>>, probes |-> <<>>]

\* The constructor: state "threw" when attribute() throws.
NewAttributions(cfg, deps) ==
  LET kept == FilterDependencies(cfg, deps)
      attributed == Attribute(cfg, kept)
      rendered == Render(cfg, attributed.attributions)
  IN IF attributed.threw
     THEN [NoAttributions EXCEPT !.state = "threw", !.probes = attributed.probes]
     ELSE [state |-> "built",
           allowedLicenses |-> AllowedLicenses(cfg),
           attributions |-> attributed.attributions,
           licenses |-> rendered.licenses,
           versions |-> rendered.versions,
           probes |-> attributed.probes]

\* const missingLicenses = !fs.existsSync(this.licensesPath)
MissingLicenses(d) == ~d.licenses.exists

\* Mutant: the versions file is looked for although none is configured.
MissingVersionsUnguarded(cfg, d) == ~d.versions.exists

\* const missingVersions = this.versionsPath && !fs.existsSync(this.versionsPath)
MissingVersions(cfg, d) == cfg.versionsPath /\ ~d.versions.exists

\* Mutant: a missing file is compared as well.
OutdatedLicensesUnguarded(obj, d) == d.licenses.data # obj.licenses

\* licenses !== undefined && licenses !== this.licenses
OutdatedLicenses(obj, d) ==
  (~MissingLicenses(d)) /\ d.licenses.data # obj.licenses

\* Mutant: the versions file is compared with the document.
OutdatedVersionsAgainstLicenses(cfg, obj, d) ==
  /\ ~(MissingVersions(cfg, d) \/ ~cfg.versionsPath)
  /\ d.versions.data # obj.licenses

\* versions is read only when versionsPath is set and the file exists
OutdatedVersions(cfg, obj, d) ==
  /\ ~(MissingVersions(cfg, d) \/ ~cfg.versionsPath)
  /\ d.versions.data # obj.versions

\* Mutant: the violation carries no fixer.
FileViolationNoFix(type, message) == Violation(type, message, FALSE)

\* { type, message, fix }
FileViolation(type, message) == Violation(type, message, TRUE)

\* The violations about the attribution files, in the order they are pushed.
FileViolations(cfg, obj, d) ==
  IF cfg.variant = "versionsPath"
  THEN (IF MissingLicenses(d)
        THEN <<FileViolation(MISSING_LICENSES, RelLicensesPath \o <<" is missing">>)>>
        ELSE <<>>)
       \o (IF OutdatedLicenses(obj, d)
           THEN <<FileViolation(OUTDATED_LICENSES, RelLicensesPath \o <<" is outdated">>)>>
           ELSE <<>>)
       \o (IF MissingVersions(cfg, d)
           THEN <<FileViolation(MISSING_VERSIONS, RelVersionsPath(cfg) \o <<" is missing">>)>>
           ELSE <<>>)
       \o (IF OutdatedVersions(cfg, obj, d)
           THEN <<FileViolation(OUTDATED_VERSIONS, RelVersionsPath(cfg) \o <<" is outdated">>)>>
           ELSE <<>>)
  ELSE (IF MissingLicenses(d)
        THEN <<FileViolation(MISSING_NOTICE, RelLicensesPath \o <<" is missing">>)>>
        ELSE <<>>)
       \o (IF OutdatedLicenses(obj, d)
           THEN <<FileViolation(OUTDATED_ATTRIBUTIONS, RelLicensesPath \o <<" is outdated">>)>>
           ELSE <<>>)

\* Mutant: the filter of invalidLicense does not look at the number of licenses.
IsInvalidLicenseAnyNumber(obj, a) ==
  /\ Len(a.licenses) >= 1
  /\ ~\E i \in DOMAIN obj.allowedLicenses :
        obj.allowedLicenses[i] = ToLowerCase(a.licenses[1])

\* a.licenses.length === 1 &&
\*   !this.allowedLicenses.includes(a.licenses[0].toLowerCase())
IsInvalidLicense(obj, a) ==
  /\ Len(a.licenses) = 1
  /\ ~\E i \in DOMAIN obj.allowedLicenses :
        obj.allowedLicenses[i] = ToLowerCase(a.licenses[1])

\* Mutant: an invalid-license violation is given the flush fixer.
InvalidLicenseFixable(a) ==
  Violation(INVALID_LICENSE,
            <<"Dependency ">> \o a.packageFqn
              \o <<" has an invalid license: ">> \o FirstLicense(a),
            TRUE)

InvalidLicenseViolation(a) ==
  Violation(INVALID_LICENSE,
            <<"Dependency ">> \o a.packageFqn \o <<" has an invalid license: ">>
              \o a.licenses[1],
            FALSE)

NoLicenseViolation(a) ==
  Violation(NO_LICENSE,
            <<"Dependency ">> \o a.packageFqn \o <<" has no license">>, FALSE)

MultiLicenseViolation(a) ==
  Violation(MULTIPLE_LICENSE,
            <<"Dependency ">> \o a.packageFqn \o <<" has multiple licenses: ">>
              \o Join(a.licenses, <<",">>),
            FALSE)

\* invalidLicense, then noLicense, then multiLicense, each in attribution order
LicenseViolations(obj) ==
  LET invalid(a) == IsInvalidLicense(obj, a)
      none(a) == Len(a.licenses) = 0
      multi(a) == Len(a.licenses) > 1
      inv == SelectSeq(obj.attributions, invalid)
      no == SelectSeq(obj.attributions, none)
      mul == SelectSeq(obj.attributions, multi)
  IN [i \in DOMAIN inv |-> InvalidLicenseViolation(inv[i])]
       \o [i \in DOMAIN no |-> NoLicenseViolation(no[i])]
       \o [i \in DOMAIN mul |-> MultiLicenseViolation(mul[i])]

\* Attributions.validate(): the violations of the report it returns
AttributionsValidate(cfg, obj, d) ==
  FileViolations(cfg, obj, d) \o LicenseViolations(obj)

\* Mutant: the versions file is forgotten.
FlushWritesLicensesOnly(cfg, obj) ==
  <<[file |-> "licenses", data |-> obj.licenses]>>

\* Mutant: the licenses file receives the versions.
FlushWritesSwapped(cfg, obj) ==
  <<[file |-> "licenses", data |-> obj.versions]>>
    \o (IF VersionsFileWritten(cfg)
        THEN <<[file |-> "versions", data |-> obj.versions]>>
        ELSE <<>>)

\* Mutant: the versions file is written whatever the configuration.
FlushWritesVersionsAlways(cfg, obj) ==
  <<[file |-> "licenses", data |-> obj.licenses],
    [file |-> "versions", data |-> obj.versions]>>

\* Attributions.flush() / flushAttributions(): the files written, in order
FlushWrites(cfg, obj) ==
  <<[file |-> "licenses", data |-> obj.licenses]>>
    \o (IF VersionsFileWritten(cfg)
        THEN <<[file |-> "versions", data |-> obj.versions]>>
        ELSE <<>>)

RECURSIVE WriteFiles(_, _)
\* fs.writeFileSync, one call per entry
WriteFiles(d, writes) ==
  IF Len(writes) = 0 THEN d
  ELSE WriteFiles([d EXCEPT ![Head(writes).file] = Content(Head(writes).data)],
                  Tail(writes))

Flush(cfg, obj, d) == WriteFiles(d, FlushWrites(cfg, obj))

----------------------------------------------------------------------------
(* Bundle.validate and the validate command *)

\* What the circular-import analysis and the resource check find in a project.
Projects ==
  { <<>>,
    << Violation(CIRCULAR_IMPORT, <<"lib/bar.js -> lib/foo.js">>, FALSE),
       Violation(MISSING_RESOURCE,
                 <<"Unable to find resource (missing) relative to the package directory">>,
                 FALSE) >> }

RECURSIVE RunFixersOnce(_, _, _, _)
\* Mutant: the loop over the violations ends after the first fixer.
RunFixersOnce(cfg, obj, d, violations) ==
  IF Len(violations) = 0 THEN [disk |-> d, fixed |-> <<>>]
  ELSE IF Head(violations).fix
       THEN [disk |-> Flush(cfg, obj, d), fixed |-> <<Head(violations).type>>]
       ELSE RunFixersOnce(cfg, obj, d, Tail(violations))

RECURSIVE RunFixers(_, _, _, _)
\* for (const violation of report.violations) if (violation.fix) violation.fix()
RunFixers(cfg, obj, d, violations) ==
  IF Len(violations) = 0 THEN [disk |-> d, fixed |-> <<>>]
  ELSE IF Head(violations).fix
       THEN LET rest == RunFixers(cfg, obj, Flush(cfg, obj, d), Tail(violations))
            IN [disk |-> rest.disk, fixed |-> <<Head(violations).type>> \o rest.fixed]
       ELSE RunFixers(cfg, obj, d, Tail(violations))

\* Bundle.validate(options): circular imports, resources, attributions; with
\* fix the fixers run and the report keeps the violations without a fixer.
BundleValidate(cfg, findings, obj, d, fix) ==
  LET detected == findings \o AttributionsValidate(cfg, obj, d)
      unfixable(v) == ~v.fix
      ran == RunFixers(cfg, obj, d, detected)
  IN IF ~fix
     THEN [detected |-> detected, disk |-> d, fixed |-> <<>>,
           report |-> ViolationsReport(detected)]
     ELSE [detected |-> detected, disk |-> ran.disk, fixed |-> ran.fixed,
           report |-> ViolationsReport(SelectSeq(detected, unfixable))]

\* Mutant: the test of report.success is inverted.
CliValidateInverted(r) ==
  IF r.success
  THEN [outcome |-> "failed", message |-> Summary(r)]
  ELSE [outcome |-> "ok", message |-> <<>>]

\* validate(bundle, options): if (!report.success) throw new Error(report.summary)
CliValidateOutcome(r) ==
  IF ~r.success
  THEN [outcome |-> "failed", message |-> Summary(r)]
  ELSE [outcome |-> "ok", message |-> <<>>]

NotRun == [outcome |-> "none", message |-> <<>>]

----------------------------------------------------------------------------
(* The bundle pipeline: installed layout, resolver, classifier, write *)

MaxExternals == 2
MaxResolved == 6

\* A package directory is named by the chain of node_modules directories
\* that leads to it from the package root: <<"b", "a">> is
\* node_modules/b/node_modules/a.  The root is <<>>.
RootPath == <<>>

NameOf(path) == path[Len(path)]

Leaf == [dependencies |-> <<>>]
Needs(names) == [dependencies |-> names]

\* Installed layouts: the root manifest and the manifest at each installed path.
FlatLayout ==
  [root |-> [dependencies |-> <<"a", "b">>, optionalDependencies |-> <<>>,
             devDependencies |-> <<"jest">>],
   installed |-> (<<"a">> :> Leaf) @@ (<<"b">> :> Leaf)]

DiamondLayout ==
  [root |-> [dependencies |-> <<"a", "b">>, optionalDependencies |-> <<>>,
             devDependencies |-> <<"jest">>],
   installed |-> (<<"a">> :> Needs(<<"c">>)) @@ (<<"b">> :> Needs(<<"c">>))
                   @@ (<<"c">> :> Leaf)]

ChainLayout ==
  [root |-> [dependencies |-> <<"a">>, optionalDependencies |-> <<"b">>,
             devDependencies |-> <<>>],
   installed |-> (<<"a">> :> Needs(<<"c">>)) @@ (<<"b">> :> Leaf)
                   @@ (<<"c">> :> Leaf)]

CycleLayout ==
  [root |-> [dependencies |-> <<"a">>, optionalDependencies |-> <<>>,
             devDependencies |-> <<"jest">>],
   installed |-> (<<"a">> :> Needs(<<"b">>)) @@ (<<"b">> :> Needs(<<"a">>))]

NestedLayout ==
  [root |-> [dependencies |-> <<"b", "a">>, optionalDependencies |-> <<>>,
             devDependencies |-> <<>>],
   installed |-> (<<"a">> :> Leaf) @@ (<<"b">> :> Needs(<<"a", "c">>))
                   @@ (<<"b", "a">> :> Needs(<<"b">>)) @@ (<<"c">> :> Leaf)]

BrokenLayout ==
  [root |-> [dependencies |-> <<"a">>, optionalDependencies |-> <<>>,
             devDependencies |-> <<>>],
   installed |-> (<<"a">> :> Needs(<<"d">>))]

Layouts ==
  { FlatLayout, DiamondLayout, ChainLayout, CycleLayout, NestedLayout, BrokenLayout }

\* The names a package at `path` declares (the root: dependencies and
\* optionalDependencies; devDependencies are never traversed).
Declared(l, path) ==
  IF path = RootPath
  THEN l.root.dependencies \o l.root.optionalDependencies
  ELSE l.installed[path].dependencies

\* The directories node_modules/<name> is looked for in, walking upward from
\* `from`: the prefixes of the path, the longest first.
Locations(from, name) ==
  [k \in 1..(Len(from) + 1) |-> SubSeq(from, 1, Len(from) + 1 - k) \o <<name>>]

\* The nearest installed copy of `name` seen from `from`;
\* found FALSE: ResolutionFailed.
Locate(l, from, name) ==
  LET places == Locations(from, name)
      hits == { k \in DOMAIN places : places[k] \in DOMAIN l.installed }
  IN IF hits = {} THEN [found |-> FALSE, path |-> RootPath]
     ELSE [found |-> TRUE,
           path |-> places[CHOOSE k \in hits : \A h \in hits : k <= h]]

\* The located dependencies of the package at `path`, in manifest order.
Edges(l, path) ==
  LET names == Declared(l, path)
  IN [i \in DOMAIN names |-> Locate(l, path, names[i])]

\* --external arguments after external.split(':'): <<name, type>>, or
\* <<name>> when the argument has no colon.
ExternalNames == {"a", "b"}
ExternalArgs ==
  { <<n, t>> : n \in ExternalNames, t \in {"runtime", "optional"} }
    \cup { <<"a", "peer">>, <<"b">> }

RECURSIVE ArgLists(_)
ArgLists(n) ==
  IF n = 0 THEN { <<>> }
  ELSE LET shorter == ArgLists(n - 1) IN
       shorter \cup { Append(l, x) : l \in shorter, x \in ExternalArgs }

NoExternals == [threw |-> FALSE, runtime |-> <<>>, optional |-> <<>>]

\* Mutant: one list receives every external, whatever its type.
PushExternalUntyped(externals, name, type) ==
  IF type \in {"optional", "runtime"}
  THEN [externals EXCEPT !.runtime = Append(@, name)]
  ELSE [externals EXCEPT !.threw = TRUE]

\* Mutant: case 'runtime' pushes nothing.
PushExternalRuntimeLost(externals, name, type) ==
  IF type = "optional"
  THEN [externals EXCEPT !.optional = Append(@, name)]
  ELSE IF type = "runtime"
       THEN externals
       ELSE [externals EXCEPT !.threw = TRUE]

\* switch (type): case 'optional', case 'runtime', default: throw
PushExternal(externals, name, type) ==
  IF type = "optional"
  THEN [externals EXCEPT !.optional = Append(@, name)]
  ELSE IF type = "runtime"
       THEN [externals EXCEPT !.runtime = Append(@, name)]
       ELSE [externals EXCEPT !.threw = TRUE]

RECURSIVE ParseExternals(_, _)
\* for (const external of argv.external): the two lists, or threw at the
\* first argument with another type
ParseExternals(given, externals) ==
  IF Len(given) = 0 THEN externals
  ELSE LET parts == Head(given)
           name == parts[1]
           type == IF Len(parts) > 1 THEN parts[2] ELSE "undefined"
           pushed == PushExternal(externals, name, type)
       IN IF pushed.threw THEN pushed
          ELSE ParseExternals(Tail(given), pushed)

Range(seq) == { seq[i] : i \in DOMAIN seq }

\* A name in both externals lists: InvalidConfig.
Contradictory(runtime, optional) == Range(runtime) \cap Range(optional) # {}

\* Mutant: the resolver keeps no visited set.
AlwaysUnvisited(path, visited) == TRUE

\* Whether the resolver goes into a located path: not when it was there.
Unvisited(path, visited) == path \notin visited

NoClassification == [bundled |-> {}, runtime |-> {}, optional |-> {}]

RECURSIVE Traverse(_, _, _, _, _, _)
\* The breadth-first traversal from the root: a node with an external name
\* goes to its partition and is not descended into, the others are bundled.
Traverse(l, runtime, optional, queue, seen, out) ==
  IF Len(queue) = 0 THEN out
  ELSE LET node == Head(queue)
           below == Edges(l, node)
       IN IF node \in seen
          THEN Traverse(l, runtime, optional, Tail(queue), seen, out)
          ELSE IF NameOf(node) \in Range(runtime)
          THEN Traverse(l, runtime, optional, Tail(queue), seen \cup {node},
                        [out EXCEPT !.runtime = @ \cup {node}])
          ELSE IF NameOf(node) \in Range(optional)
          THEN Traverse(l, runtime, optional, Tail(queue), seen \cup {node},
                        [out EXCEPT !.optional = @ \cup {node}])
          ELSE Traverse(l, runtime, optional,
                        Tail(queue) \o [i \in DOMAIN below |-> below[i].path],
                        seen \cup {node},
                        [out EXCEPT !.bundled = @ \cup {node}])

Classification(l, runtime, optional) ==
  LET first == Edges(l, RootPath)
  IN Traverse(l, runtime, optional, [i \in DOMAIN first |-> first[i].path],
              {}, NoClassification)

\* Top-level entries of the package directory, each name in two pieces so
\* that .gitignore begins with .git and node_modules_file with node_modules.
Entry(head, rest) == <<head, rest>>
PackageEntries ==
  { Entry(".git", ""), Entry("node_modules", ""), Entry(".git", "ignore"),
    Entry("node_modules", "_file"), Entry("package.json", ""),
    Entry("index.js", ""), Entry("lib", "") }
PackageDirs ==
  { PackageEntries,
    PackageEntries \ { Entry(".git", "ignore"), Entry("node_modules", "_file") },
    PackageEntries \ { Entry(".git", "") } }

\* Mutant: every entry whose name begins with .git or node_modules is left out.
IgnoredByPrefix(entry) == entry[1] \in {".git", "node_modules"}

\* The entries write does not copy.
Ignored(entry) == entry \in { Entry(".git", ""), Entry("node_modules", "") }

\* The bundle directory: the copy, and the attributions flushed into it.
WrittenEntries(entries) ==
  { e \in entries : ~Ignored(e) } \cup { Entry("THIRD_PARTY_LICENSES", "") }

NoManifest ==
  [dependencies |-> <<>>, optionalDependencies |-> <<>>, devDependencies |-> <<>>]

\* Mutant: the entries are added to devDependencies and not taken out of the
\* sections they were in.
RewriteManifestCopies(manifest, runtime, optional) ==
  LET bundledName(n) == n \notin Range(runtime) \cup Range(optional)
  IN [dependencies |-> manifest.dependencies,
      optionalDependencies |-> manifest.optionalDependencies,
      devDependencies |-> manifest.devDependencies
                            \o SelectSeq(manifest.dependencies, bundledName)
                            \o SelectSeq(manifest.optionalDependencies, bundledName)]

\* package.json of the bundle: the entries of bundled dependencies move to
\* devDependencies, the entries of external packages stay where they are.
RewriteManifest(manifest, runtime, optional) ==
  LET external(n) == n \in Range(runtime) \cup Range(optional)
      bundledName(n) == ~external(n)
  IN [dependencies |-> SelectSeq(manifest.dependencies, external),
      optionalDependencies |-> SelectSeq(manifest.optionalDependencies, external),
      devDependencies |-> manifest.devDependencies
                            \o SelectSeq(manifest.dependencies, bundledName)
                            \o SelectSeq(manifest.optionalDependencies, bundledName)]

----------------------------------------------------------------------------
(* State *)

pipeline == <<layout, packageDir, externalArgs, cliRun, resolver, bundle>>

vars == <<config, dependencies, project, disk, proc, attr, report, cli, last,
          fixedBefore, produced, pipeline>>

\* What no operation on the attributions changes.
world == <<config, dependencies, project, pipeline>>

IdleRun ==
  [pc |-> "idle", error |-> "none", runtime |-> <<>>, optional |-> <<>>,
   steps |-> <<>>]
NoResolver == [stack |-> <<>>, visited |-> {}, found |-> <<>>]
NoBundle ==
  [classes |-> NoClassification, attributed |-> {}, dir |-> {},
   manifest |-> NoManifest]

\* No command line is running the pipeline.
PipelineIdle ==
  /\ layout = FlatLayout
  /\ packageDir = PackageEntries
  /\ externalArgs = <<>>
  /\ cliRun = IdleRun
  /\ resolver = NoResolver
  /\ bundle = NoBundle

\* package.json of the package directory, a file the attributions do not own.
PackageJson == Content(<<"package.json">>)

\* What a stale attribution file holds.
Stale == <<"outdated">>

NoDocs == [set |-> FALSE, licenses |-> <<>>, versions |-> <<>>]
DocsOf(obj) ==
  IF obj.state = "built"
  THEN [set |-> TRUE, licenses |-> obj.licenses, versions |-> obj.versions]
  ELSE NoDocs

Op(name) ==
  [op |-> name, fix |-> FALSE, before |-> disk, detected |-> <<>>,
   fixed |-> <<>>, second |-> FALSE, afterInterrupt |-> FALSE, again |-> FALSE,
   afterFlush |-> FALSE]

\* Whether the operation follows a flush of the same object directly.
FollowsFlush == last.op = "flush"

\* Whether the operation follows an interrupted flush with nothing but the
\* start of a new process in between.
FollowsInterrupt ==
  \/ last.op = "interrupted"
  \/ last.op = "new" /\ last.afterInterrupt

Init ==
  /\ config \in { c \in Configs : WellFormed(c) }
  /\ dependencies \in { l \in DepLists(MaxDeps) : Distinct(l) }
  /\ project \in Projects
  /\ disk = [licenses |-> Absent, versions |-> Absent, manifest |-> PackageJson]
  /\ proc = "none"
  /\ attr = NoAttributions
  /\ report = NoReport
  /\ cli = NotRun
  /\ last = Op("init")
  /\ fixedBefore = FALSE
  /\ produced = NoDocs
  /\ PipelineIdle

\* new Attributions(props), by a program that uses the API
Construct ==
  /\ proc = "none"
  /\ proc' = "api"
  /\ \E obj \in { NewAttributions(config, dependencies) } :
       /\ attr' = obj
       /\ produced' = IF produced.set THEN produced ELSE DocsOf(obj)
  /\ last' = [Op("new") EXCEPT !.afterInterrupt = FollowsInterrupt,
                               !.again = produced.set]
  /\ report' = NoReport
  /\ cli' = NotRun
  /\ UNCHANGED <<world, disk, fixedBefore>>

\* Mutant: validate invokes the fixer it puts into the report.
ValidateFlushing ==
  /\ proc = "api"
  /\ attr.state = "built"
  /\ \E violations \in { AttributionsValidate(config, attr, disk) } :
       /\ report' = ViolationsReport(violations)
       /\ last' = [Op("validate") EXCEPT !.detected = violations,
                                         !.afterInterrupt = FollowsInterrupt,
                                         !.afterFlush = FollowsFlush]
       /\ disk' = IF \E i \in DOMAIN violations : violations[i].fix
                  THEN Flush(config, attr, disk)
                  ELSE disk
  /\ cli' = NotRun
  /\ UNCHANGED <<world, proc, attr, fixedBefore, produced>>

\* attributions.validate()
Validate ==
  /\ proc = "api"
  /\ attr.state = "built"
  /\ \E violations \in { AttributionsValidate(config, attr, disk) } :
       /\ report' = ViolationsReport(violations)
       /\ last' = [Op("validate") EXCEPT !.detected = violations,
                                         !.afterInterrupt = FollowsInterrupt,
                                         !.afterFlush = FollowsFlush]
  /\ cli' = NotRun
  /\ UNCHANGED <<world, disk, proc, attr, fixedBefore, produced>>

\* attributions.flush()
FlushFiles ==
  /\ proc = "api"
  /\ attr.state = "built"
  /\ disk' = Flush(config, attr, disk)
  /\ last' = Op("flush")
  /\ report' = NoReport
  /\ cli' = NotRun
  /\ UNCHANGED <<world, proc, attr, fixedBefore, produced>>

\* bundle.validate({ fix })
ValidateBundle(fix) ==
  /\ proc = "api"
  /\ attr.state = "built"
  /\ \E run \in { BundleValidate(config, project, attr, disk, fix) } :
       /\ disk' = run.disk
       /\ report' = run.report
       /\ last' = [Op("bundle.validate") EXCEPT
                     !.fix = fix, !.detected = run.detected, !.fixed = run.fixed,
                     !.second = fix /\ fixedBefore,
                     !.afterInterrupt = FollowsInterrupt,
                     !.afterFlush = FollowsFlush]
  /\ fixedBefore' = (fixedBefore \/ fix)
  /\ cli' = NotRun
  /\ UNCHANGED <<world, proc, attr, produced>>

\* cliMain(['validate']) and cliMain(['validate', '--fix']): the bundle is
\* built and validated; the process is left to exit
CliValidate(fix) ==
  /\ proc = "none"
  /\ proc' = "cli"
  /\ \E obj \in { NewAttributions(config, dependencies) } :
       /\ attr' = obj
       /\ produced' = IF produced.set THEN produced ELSE DocsOf(obj)
       /\ IF obj.state = "threw"
          THEN /\ cli' = [outcome |-> "failed",
                          message |-> <<"Unable to locate license information">>]
               /\ report' = NoReport
               /\ last' = [Op("cli.validate") EXCEPT !.fix = fix]
               /\ UNCHANGED <<disk, fixedBefore>>
          ELSE \E run \in { BundleValidate(config, project, obj, disk, fix) } :
               /\ cli' = CliValidateOutcome(run.report)
               /\ report' = run.report
               /\ disk' = run.disk
               /\ last' = [Op("cli.validate") EXCEPT
                             !.fix = fix, !.detected = run.detected,
                             !.fixed = run.fixed,
                             !.second = fix /\ fixedBefore,
                             !.afterInterrupt = FollowsInterrupt,
                             !.again = produced.set]
               /\ fixedBefore' = (fixedBefore \/ fix)
  /\ UNCHANGED world

\* The process is killed inside flush, after k of its writes.
FlushInterrupted(k) ==
  /\ proc = "api"
  /\ attr.state = "built"
  /\ k < Len(FlushWrites(config, attr))
  /\ disk' = WriteFiles(disk, SubSeq(FlushWrites(config, attr), 1, k))
  /\ proc' = "none"
  /\ attr' = NoAttributions
  /\ report' = NoReport
  /\ cli' = NotRun
  /\ last' = Op("interrupted")
  /\ UNCHANGED <<world, fixedBefore, produced>>

\* The process ends.
Exit ==
  /\ proc # "none"
  /\ proc' = "none"
  /\ attr' = NoAttributions
  /\ report' = NoReport
  /\ cli' = NotRun
  /\ last' = Op("exit")
  /\ UNCHANGED <<world, disk, fixedBefore, produced>>

\* Somebody else deletes an attribution file or leaves other content in it.
ExternalEdit(file, content) ==
  /\ proc = "none"
  /\ disk[file] # content
  /\ disk' = [disk EXCEPT ![file] = content]
  /\ fixedBefore' = FALSE
  /\ last' = Op("edit")
  /\ report' = NoReport
  /\ cli' = NotRun
  /\ UNCHANGED <<world, proc, attr, produced>>

Next ==
  \/ Construct
  \/ Validate
  \/ FlushFiles
  \/ \E fix \in BOOLEAN : ValidateBundle(fix)
  \/ \E fix \in BOOLEAN : CliValidate(fix)
  \/ \E k \in 0..1 : FlushInterrupted(k)
  \/ Exit
  \/ \E file \in {"licenses", "versions"}, content \in {Absent, Content(Stale)} :
       ExternalEdit(file, content)

Spec == Init /\ [][Next]_vars

\* The constructions alone: the dependencies and the configuration are
\* drawn by Init, and every process does nothing but build the Attributions.
RenderNext ==
  \/ Construct
  \/ Exit

RenderSpec == Init /\ [][RenderNext]_vars

----------------------------------------------------------------------------
(* The command line: externals, resolver, classifier, write *)

engine == <<config, dependencies, project, disk, proc, attr, report, cli, last,
            fixedBefore, produced>>

\* The attributions engine at rest, while the pipeline is looked at.
EngineIdle ==
  /\ config = CHOOSE c \in Configs : WellFormed(c)
  /\ dependencies = <<>>
  /\ project = <<>>
  /\ disk = [licenses |-> Absent, versions |-> Absent, manifest |-> PackageJson]
  /\ proc = "none"
  /\ attr = NoAttributions
  /\ report = NoReport
  /\ cli = NotRun
  /\ last = Op("init")
  /\ fixedBefore = FALSE
  /\ produced = NoDocs

BundleInit ==
  /\ EngineIdle
  /\ layout \in Layouts
  /\ packageDir \in PackageDirs
  /\ externalArgs \in ArgLists(MaxExternals)
  /\ cliRun = [IdleRun EXCEPT !.pc = "start"]
  /\ resolver = NoResolver
  /\ bundle = NoBundle

Failed(error) == [cliRun EXCEPT !.pc = "failed", !.error = error]

\* cliMain: the externals lists and the props of the bundle
CliParse ==
  /\ cliRun.pc = "start"
  /\ \E parsed \in { ParseExternals(externalArgs, NoExternals) } :
       cliRun' = IF parsed.threw THEN Failed("UnsupportedType")
                 ELSE [cliRun EXCEPT !.pc = "parsed",
                                     !.runtime = parsed.runtime,
                                     !.optional = parsed.optional]
  /\ UNCHANGED <<engine, layout, packageDir, externalArgs, resolver, bundle>>

\* new Bundle(props): contradictory externals are rejected; the resolver
\* starts at the package root
NewBundle ==
  /\ cliRun.pc = "parsed"
  /\ IF Contradictory(cliRun.runtime, cliRun.optional)
     THEN /\ cliRun' = Failed("InvalidConfig")
          /\ UNCHANGED resolver
     ELSE /\ cliRun' = [cliRun EXCEPT !.pc = "resolving"]
          /\ resolver' = [NoResolver EXCEPT !.stack = <<RootPath>>]
  /\ UNCHANGED <<engine, layout, packageDir, externalArgs, bundle>>

\* The resolver enters the package on top of its stack, unless it has been
\* there: it locates every dependency the manifest declares.
ResolveStep ==
  /\ cliRun.pc = "resolving"
  /\ Len(resolver.stack) > 0
  /\ Len(resolver.found) < MaxResolved
  /\ LET path == Head(resolver.stack)
         located == Edges(layout, path)
     IN IF ~Unvisited(path, resolver.visited)
        THEN /\ resolver' = [resolver EXCEPT !.stack = Tail(@)]
             /\ UNCHANGED cliRun
        ELSE IF \E i \in DOMAIN located : ~located[i].found
        THEN /\ cliRun' = Failed("ResolutionFailed")
             /\ UNCHANGED resolver
        ELSE /\ resolver' =
                  [stack |-> [i \in DOMAIN located |-> located[i].path]
                               \o Tail(resolver.stack),
                   visited |-> resolver.visited \cup {path},
                   found |-> IF path = RootPath THEN resolver.found
                             ELSE Append(resolver.found, path)]
             /\ UNCHANGED cliRun
  /\ UNCHANGED <<engine, layout, packageDir, externalArgs, bundle>>

\* The resolver returns the closure.
ResolveDone ==
  /\ cliRun.pc = "resolving"
  /\ Len(resolver.stack) = 0
  /\ cliRun' = [cliRun EXCEPT !.pc = "resolved"]
  /\ UNCHANGED <<engine, layout, packageDir, externalArgs, resolver, bundle>>

\* The classifier; the attributions are those of the bundled packages.
Classify ==
  /\ cliRun.pc = "resolved"
  /\ \E classes \in { Classification(layout, cliRun.runtime, cliRun.optional) } :
       bundle' = [bundle EXCEPT !.classes = classes, !.attributed = classes.bundled]
  /\ cliRun' = [cliRun EXCEPT !.pc = "classified"]
  /\ UNCHANGED <<engine, layout, packageDir, externalArgs, resolver>>

\* switch (command): validate, write or pack (which writes first)
Command(command) ==
  /\ cliRun.pc = "classified"
  /\ cliRun' = [cliRun EXCEPT
                  !.pc = "done",
                  !.steps = IF command = "pack" THEN <<"write", "pack">>
                            ELSE <<command>>]
  /\ bundle' = IF command = "validate" THEN bundle
               ELSE [bundle EXCEPT
                       !.dir = WrittenEntries(packageDir),
                       !.manifest = RewriteManifest(layout.root, cliRun.runtime,
                                                    cliRun.optional)]
  /\ UNCHANGED <<engine, layout, packageDir, externalArgs, resolver>>

BundleNext ==
  \/ CliParse
  \/ NewBundle
  \/ ResolveStep
  \/ ResolveDone
  \/ Classify
  \/ \E command \in {"validate", "write", "pack"} : Command(command)

BundleSpec == BundleInit /\ [][BundleNext]_vars

\* The pipeline is synchronous: a resolver that can take a step takes it.
BundleLive ==
  BundleSpec /\ WF_vars(ResolveStep) /\ WF_vars(ResolveDone)

----------------------------------------------------------------------------
(* Properties *)

Types(violations) == { violations[i].type : i \in DOMAIN violations }

FixableTypes ==
  { MISSING_LICENSES, OUTDATED_LICENSES, MISSING_VERSIONS, OUTDATED_VERSIONS,
    MISSING_NOTICE, OUTDATED_ATTRIBUTIONS }

MissingType == IF config.variant = "versionsPath" THEN MISSING_LICENSES ELSE MISSING_NOTICE
OutdatedType ==
  IF config.variant = "versionsPath" THEN OUTDATED_LICENSES ELSE OUTDATED_ATTRIBUTIONS

\* A validation returned a report: attributions.validate(), bundle.validate()
\* or the validate command.
Validated ==
  /\ last.op \in {"validate", "bundle.validate", "cli.validate"}
  /\ report.returned

\* bundle.validate({ fix: true }) or validate --fix returned a report.
FixRun ==
  /\ last.op \in {"bundle.validate", "cli.validate"}
  /\ last.fix
  /\ report.returned

\* A file that exists with other content than the canonical one.
IsStale(file, canonical) == file.exists /\ file.data # canonical

\* C1 (as claimed): a second validate with fix, with no input changed since the
\* first, finds an empty set of violations.
C1_SecondFixRunFindsNothing ==
  (FixRun /\ last.second) =>
    /\ last.detected = <<>>
    /\ report.violations = <<>>

\* C1 (amended): a second validate with fix, with no input changed since the
\* first, detects no fixable violation (no missing-* and no outdated-*), runs
\* no fixer and leaves the files as they are; what it reports is what it
\* detected, the violations that have no fixer.
C1_SecondFixRunFindsNothingFixable ==
  (FixRun /\ last.second) =>
    /\ Types(last.detected) \cap FixableTypes = {}
    /\ last.fixed = <<>>
    /\ disk = last.before
    /\ report.violations = last.detected

C1_Witness ==
  /\ FixRun /\ last.second
  /\ last.detected # <<>>
  /\ disk.licenses.exists
  /\ Len(dependencies) = 2

\* C2: after an interrupted flush, a validation that finds a stale attribution
\* file (the licenses file, or the versions file flush writes) reports a
\* fixable outdated-* violation, and with fix every attribution file holds
\* the canonical content afterwards.
C2_StaleFileDetectedAndFixed ==
  (Validated /\ last.afterInterrupt) =>
    LET staleLicenses == IsStale(last.before.licenses, attr.licenses)
        staleVersions == /\ VersionsFileWritten(config)
                         /\ IsStale(last.before.versions, attr.versions)
    IN (staleLicenses \/ staleVersions) =>
         /\ \E i \in DOMAIN last.detected :
              /\ last.detected[i].type \in
                   {OUTDATED_LICENSES, OUTDATED_VERSIONS, OUTDATED_ATTRIBUTIONS}
              /\ last.detected[i].fix
         /\ last.fix =>
              /\ disk.licenses = Content(attr.licenses)
              /\ VersionsFileWritten(config) => disk.versions = Content(attr.versions)

\* C3 (as claimed): the report of a validate with fix lists every violation
\* detected before fixing, and succeeds when all of them were fixable.
C3_ReportListsAllDetected ==
  FixRun =>
    /\ report.violations = last.detected
    /\ (\A i \in DOMAIN last.detected : last.detected[i].fix) => report.success

\* C3 (amended): the report of a validate with fix lists the detected
\* violations except the missing-* and outdated-* ones, whose fixers have
\* run, in the order of detection; it succeeds when all detected violations
\* were of those kinds.
C3_ReportListsUnfixable ==
  FixRun =>
    LET kept(v) == v.type \notin FixableTypes IN
    /\ report.violations = SelectSeq(last.detected, kept)
    /\ (Types(last.detected) \subseteq FixableTypes) => report.success

C3_Witness ==
  /\ FixRun
  /\ Types(last.detected) \cap FixableTypes # {}
  /\ Types(last.detected) \ FixableTypes # {}

\* Every attributed dependency declares one license, which the allow-list holds.
AllLicensesAllowed ==
  \A i \in DOMAIN attr.attributions :
    /\ Len(attr.attributions[i].licenses) = 1
    /\ \E j \in DOMAIN config.allowedLicenses :
         ToLowerCase(config.allowedLicenses[j])
           = ToLowerCase(attr.attributions[i].licenses[1])

\* C4: validate with fix on a package whose only violations are missing or
\* outdated attribution files, and whose dependencies all have one allowed
\* license, returns a report without violations and leaves the licenses file
\* on disk with the canonical document.
C4_FixLeavesCanonicalLicenses ==
  (/\ FixRun
   /\ Types(last.detected) \subseteq FixableTypes
   /\ AllLicensesAllowed) =>
    /\ report.violations = <<>>
    /\ disk.licenses.exists
    /\ disk.licenses.data = attr.licenses

C4_Witness ==
  /\ FixRun
  /\ last.detected # <<>>
  /\ Types(last.detected) \subseteq FixableTypes
  /\ AllLicensesAllowed
  /\ Len(dependencies) = 2

\* C5: a report succeeds exactly when it lists no violation, and the validate
\* command fails exactly when the report does not succeed, with the summary
\* of the report as its message.
C5_SuccessIffNoViolations ==
  /\ report.returned => (report.success <=> report.violations = <<>>)
  /\ (last.op = "cli.validate" /\ report.returned) =>
       /\ cli.outcome \in {"ok", "failed"}
       /\ cli.outcome = "failed" <=> ~report.success
       /\ cli.outcome = "failed" => cli.message = Summary(report)

C5_Witness ==
  /\ last.op = "cli.validate" /\ report.returned
  /\ cli.outcome = "failed"
  /\ last.fix
  /\ last.fixed # <<>>

\* C6: validation reports the licenses file missing exactly when no file is
\* at licensesPath, and outdated exactly when a file is there whose content
\* differs from the canonical document; never both.  (missing-licenses and
\* outdated-licenses; missing-notice and outdated-attributions in the
\* encodeVersions generation.)
C6_MissingOrOutdatedLicenses ==
  Validated =>
    /\ MissingType \in Types(last.detected) <=> ~last.before.licenses.exists
    /\ OutdatedType \in Types(last.detected) <=>
         (last.before.licenses.exists /\ last.before.licenses.data # attr.licenses)
    /\ ~(MissingType \in Types(last.detected) /\ OutdatedType \in Types(last.detected))
    /\ config.variant = "versionsPath" =>
         Types(last.detected) \cap {MISSING_NOTICE, OUTDATED_ATTRIBUTIONS} = {}

C6_Witness ==
  /\ Validated
  /\ config.variant = "versionsPath"
  /\ OUTDATED_LICENSES \in Types(last.detected)
  /\ attr.licenses # <<>>

\* C7: with a versions file configured, validation reports missing-versions
\* exactly when the file is absent and outdated-versions exactly when it is
\* there with other content than the canonical versions JSON; with none
\* configured it reports neither, whatever versions file is on disk.
C7_MissingOrOutdatedVersions ==
  Validated =>
    IF config.variant = "versionsPath" /\ config.versionsPath
    THEN /\ MISSING_VERSIONS \in Types(last.detected) <=> ~last.before.versions.exists
         /\ OUTDATED_VERSIONS \in Types(last.detected) <=>
              (last.before.versions.exists /\ last.before.versions.data # attr.versions)
    ELSE Types(last.detected) \cap {MISSING_VERSIONS, OUTDATED_VERSIONS} = {}

C7_Witness ==
  /\ Validated
  /\ config.variant = "versionsPath" /\ config.versionsPath
  /\ OUTDATED_VERSIONS \in Types(last.detected)
  /\ ~last.fix

\* The attributions with exactly one license whose lower-cased form is not in
\* the lower-cased allow-list, in attribution order.
NotAllowed ==
  LET bad(a) ==
        /\ Len(a.licenses) = 1
        /\ ToLowerCase(a.licenses[1])
             \notin { ToLowerCase(config.allowedLicenses[j]) :
                        j \in DOMAIN config.allowedLicenses }
  IN SelectSeq(attr.attributions, bad)

\* C8: invalid-license is reported for exactly the dependencies that declare
\* one license whose lower-cased form is not in the lower-cased allow-list.
C8_InvalidLicenseCaseInsensitive ==
  Validated =>
    LET invalid(v) == v.type = INVALID_LICENSE IN
    SelectSeq(last.detected, invalid)
      = [i \in DOMAIN NotAllowed |-> InvalidLicenseViolation(NotAllowed[i])]

\* allowedLicenses = ["MIT"] and a dependency that declares "mit": accepted.
C8_Witness ==
  /\ Validated
  /\ config.allowedLicenses = <<MIT>>
  /\ \E i \in DOMAIN attr.attributions : attr.attributions[i].licenses = <<mit>>
  /\ INVALID_LICENSE \notin Types(last.detected)

\* C9: the blocks of the rendered document are in strictly ascending
\* packageFqn order.
C9_BlocksStrictlyAscending ==
  attr.state = "built" =>
    LET ordered == Render(config, attr.attributions).ordered IN
    \A i \in 1..(Len(ordered) - 1) :
      LocaleCompare(ordered[i].packageFqn, ordered[i + 1].packageFqn) < 0

SeparateVersionsFile ==
  IF config.variant = "versionsPath" THEN config.versionsPath
  ELSE ~config.encodeVersions

\* C11: flush writes the canonical document to the licenses file; it writes
\* the versions JSON to the versions file exactly when the versions are kept
\* in a file of their own, and leaves the versions file as it was when they
\* are embedded in the document; it writes no other file.
C11_FlushWritesItsFilesOnly ==
  (last.op = "flush") =>
    /\ disk.licenses = Content(attr.licenses)
    /\ SeparateVersionsFile => disk.versions = Content(attr.versions)
    /\ ~SeparateVersionsFile => disk.versions = last.before.versions
    /\ disk.manifest = last.before.manifest

\* flush with embedded versions, next to a versions file somebody left there.
C11_Witness ==
  /\ last.op = "flush"
  /\ ~SeparateVersionsFile
  /\ last.before.versions = Content(Stale)
  /\ ~last.before.licenses.exists
  /\ attr.versions # Stale

\* The violations of the kinds that are not about the attribution files.
Unfixable(violations) ==
  LET other(v) == v.type \notin FixableTypes IN SelectSeq(violations, other)

\* The violations about the licenses of the dependencies, which
\* attributions.validate() finds on its own.
LicenseKinds(violations) ==
  LET license(v) == v.type \in {INVALID_LICENSE, NO_LICENSE, MULTIPLE_LICENSE}
  IN SelectSeq(violations, license)

\* C12: a violation carries a fixer exactly when its kind is missing-licenses,
\* outdated-licenses, missing-versions or outdated-versions (missing-notice,
\* outdated-attributions in the encodeVersions generation); a validation with
\* fix runs no fixer for the other kinds and reports them all, and the
\* validation that follows it reports them again unchanged.
C12_OnlyFileViolationsAreFixed ==
  /\ [](Validated =>
          /\ \A i \in DOMAIN last.detected :
               last.detected[i].fix <=> last.detected[i].type \in FixableTypes
          /\ \A i \in DOMAIN last.fixed : last.fixed[i] \in FixableTypes
          /\ last.fix => report.violations = Unfixable(last.detected))
  /\ [][(FixRun /\ Validated') =>
          IF last'.op = "validate"
          THEN Unfixable(last'.detected) = LicenseKinds(last.detected)
          ELSE Unfixable(last'.detected) = Unfixable(last.detected)]_vars

\* A validation after a fix run that finds the violations fix did not touch.
C12_Witness ==
  /\ last.op = "bundle.validate" /\ report.returned
  /\ ~last.fix
  /\ fixedBefore
  /\ {INVALID_LICENSE, CIRCULAR_IMPORT, MISSING_RESOURCE} \subseteq Types(last.detected)
  /\ Types(last.detected) \cap FixableTypes = {}

\* The kinds of the violations that carry a fixer, in the order produced.
FixersOf(violations) ==
  LET fixable(v) == v.fix
      with == SelectSeq(violations, fixable)
  IN [i \in DOMAIN with |-> with[i].type]

\* C17: a validation with fix invokes the fixer of each fixable violation
\* once, in the order the violations were produced; a validation without fix
\* invokes no fixer and leaves the files as they are.
C17_FixersRunOnceInOrder ==
  Validated =>
    IF last.fix
    THEN last.fixed = FixersOf(last.detected)
    ELSE /\ last.fixed = <<>>
         /\ disk = last.before

\* Two fixers ran: the licenses file was missing and the versions file stale.
C17_Witness ==
  /\ FixRun
  /\ Len(last.fixed) = 2
  /\ last.fixed[1] # last.fixed[2]
  /\ Len(last.detected) > 2
  /\ ~last.detected[1].fix

\* The constructor has just run: new Attributions(props), by the API or by
\* the validate command.
Constructed ==
  /\ last.op \in {"new", "cli.validate"}
  /\ attr.state \in {"built", "threw"}

\* What the installation holds: whether license-checker, run in
\* dependenciesRoot, reports name@version of the dependency, and whether it
\* does when run in the directory of the dependency.
ReportedInRoot(d) == \E p \in Installed : pkg(p) = pkg(d) /\ p.global
ReportedInOwnDir(d) == \E p \in Installed : p.path = d.path /\ p.local

\* C18: the license probe runs once in dependenciesRoot, for all dependencies;
\* for each dependency that run does not report, taken in order, it runs once
\* more, in the directory of that dependency, and the first dependency that
\* is then still missing makes the constructor throw: no document is
\* rendered, no report returned, and no file is written while the failed
\* object is there.  A dependency the first run reports is not probed again.
C18_ProbeFallbackThenFail ==
  /\ [](Constructed =>
          LET deps == FilterDependencies(config, dependencies)
              lost(d) == ~ReportedInRoot(d) /\ ~ReportedInOwnDir(d)
              runsIn(dir) == Cardinality({ i \in DOMAIN attr.probes :
                                             attr.probes[i].cwd = dir })
          IN IF Len(deps) = 0
             THEN attr.probes = <<>> /\ attr.state = "built"
             ELSE /\ attr.probes[1] = [cwd |-> RootDir,
                                       packages |-> [i \in DOMAIN deps |-> pkg(deps[i])]]
                  /\ runsIn(RootDir) = 1
                  /\ \A i \in DOMAIN deps :
                       runsIn(deps[i].path) =
                         IF /\ ~ReportedInRoot(deps[i])
                            /\ \A j \in 1..(i - 1) : ~lost(deps[j])
                         THEN 1 ELSE 0
                  /\ Len(attr.probes) <= 1 + Len(deps)
                  /\ attr.state = "threw" <=> \E i \in DOMAIN deps : lost(deps[i])
                  /\ attr.state = "threw" =>
                       /\ attr.attributions = <<>>
                       /\ attr.licenses = <<>> /\ attr.versions = <<>>
                       /\ ~report.returned
                       /\ disk = last.before)
  /\ [][attr.state = "threw" => disk' = disk]_vars

\* The second dependency is found by neither run, after the first was found
\* in its own directory.
C18_Witness ==
  /\ Constructed
  /\ attr.state = "threw"
  /\ Len(attr.probes) = 3
  /\ last.op = "cli.validate"
  /\ cli.outcome = "failed"
  /\ disk.versions = Content(Stale)

\* The headers of the blocks of a document: from each "** " up to " | ".
HeadersOf(document) ==
  LET starts == { i \in DOMAIN document : document[i] = "** " }
      ends(i) == { j \in (i + 1)..Len(document) : document[j] = " | " }
      end(i) == CHOOSE j \in ends(i) : \A k \in ends(i) : j <= k
  IN { SubSeq(document, i, end(i)) : i \in { s \in starts : ends(s) # {} } }

\* The header the claim describes for a package: bare name and bare url, or
\* name@version and the url that ends in /v/<version>.
BareHeader(a) ==
  <<"** ">> \o a.packageName \o <<" - ", "https://www.npmjs.com/package/">>
    \o a.packageName \o <<" | ">>
VersionedHeader(a) ==
  <<"** ">> \o a.packageName \o <<"@">> \o a.packageVersion
    \o <<" - ", "https://www.npmjs.com/package/">>
    \o a.packageName \o <<"/v/">> \o a.packageVersion \o <<" | ">>

\* C19: in the rendered document every block header shows the version in both
\* the title and the url or in neither: with a versions file of its own
\* configured the header is "** <name> - https://www.npmjs.com/package/<name>",
\* otherwise "** <name>@<version> - https://www.npmjs.com/package/<name>/v/<version>".
C19_TitleAndUrlAgree ==
  (Constructed /\ attr.state = "built") =>
    LET expected ==
          { IF SeparateVersionsFile THEN BareHeader(attr.attributions[i])
            ELSE VersionedHeader(attr.attributions[i]) :
              i \in DOMAIN attr.attributions }
    IN /\ HeadersOf(attr.licenses) = expected
       /\ Cardinality({ i \in DOMAIN attr.licenses : attr.licenses[i] = "** " })
            = Len(attr.attributions)

C19_Witness ==
  /\ Constructed /\ attr.state = "built"
  /\ config.variant = "encodeVersions" /\ ~config.encodeVersions
  /\ Cardinality(HeadersOf(attr.licenses)) = 2

----------------------------------------------------------------------------
(* Properties of the pipeline *)

\* The names given as --external <name>:runtime, and as :optional.
GivenAs(type) ==
  { externalArgs[i][1] : i \in { k \in DOMAIN externalArgs :
                                   /\ Len(externalArgs[k]) = 2
                                   /\ externalArgs[k][2] = type } }

Targets(l, from) ==
  UNION { { Edges(l, p)[i].path : i \in DOMAIN Edges(l, p) } : p \in from }

RECURSIVE Reach(_, _, _, _)
\* The packages reached from `frontier` by dependency edges that do not end
\* in a package named in `avoid`.
Reach(l, avoid, frontier, seen) ==
  LET next == { q \in Targets(l, frontier) : NameOf(q) \notin avoid } \ seen
  IN IF next = {} THEN seen ELSE Reach(l, avoid, next, seen \cup next)

\* The transitive closure of the package at `path`.
Below(l, path) == Reach(l, {}, {path}, {})

\* The packages in the closure of the root that carry the name.
Named(name) == { q \in Range(resolver.found) : NameOf(q) = name }

Classified == cliRun.pc \in {"classified", "done"}
Wrote == cliRun.pc = "done" /\ "write" \in Range(cliRun.steps)

C14_WriteIgnoresGitAndNodeModules ==
  Wrote =>
    /\ \A e \in packageDir :
         e \in bundle.dir <=> (e # <<".git", "">> /\ e # <<"node_modules", "">>)
    /\ <<".git", "">> \notin bundle.dir
    /\ <<"node_modules", "">> \notin bundle.dir

C14_Witness ==
  /\ Wrote
  /\ {<<".git", "">>, <<"node_modules", "">>} \subseteq packageDir
  /\ {<<".git", "ignore">>, <<"node_modules", "_file">>, <<"lib", "">>}
       \subseteq bundle.dir
  /\ cliRun.steps = <<"write">>

\* The names the manifest of the package root gives to bundled packages and
\* those it gives to external ones.
RootEntries == Range(layout.root.dependencies) \cup Range(layout.root.optionalDependencies)
BundledEntries == { n \in RootEntries : \E q \in bundle.classes.bundled : q = <<n>> }
ExternalEntries ==
  { n \in RootEntries :
      \E q \in bundle.classes.runtime \cup bundle.classes.optional : q = <<n>> }

\* C15: in the package.json of the bundle every entry of a bundled dependency
\* is under devDependencies, dependencies and optionalDependencies hold
\* entries of external packages only, and without externals dependencies is
\* empty.
C15_ManifestRewritten ==
  Wrote =>
    /\ BundledEntries \subseteq Range(bundle.manifest.devDependencies)
    /\ BundledEntries \cap Range(bundle.manifest.dependencies) = {}
    /\ BundledEntries \cap Range(bundle.manifest.optionalDependencies) = {}
    /\ Range(bundle.manifest.dependencies) \subseteq ExternalEntries
    /\ Range(bundle.manifest.optionalDependencies) \subseteq ExternalEntries
    /\ Range(layout.root.devDependencies) \subseteq Range(bundle.manifest.devDependencies)
    /\ externalArgs = <<>> =>
         /\ bundle.manifest.dependencies = <<>>
         /\ bundle.manifest.devDependencies
              = layout.root.devDependencies \o layout.root.dependencies
                  \o layout.root.optionalDependencies

\* b stays an optional dependency, a moves to devDependencies.
C15_Witness ==
  /\ Wrote
  /\ layout = ChainLayout
  /\ bundle.manifest.optionalDependencies = <<"b">>
  /\ bundle.manifest.devDependencies = <<"a">>
  /\ bundle.manifest.dependencies = <<>>

\* Every --external argument names a supported type.
AllTyped ==
  \A i \in DOMAIN externalArgs :
    /\ Len(externalArgs[i]) = 2
    /\ externalArgs[i][2] \in {"runtime", "optional"}

C20_ResolverTerminates ==
  /\ [](\A i, j \in DOMAIN resolver.found :
          i # j => resolver.found[i] # resolver.found[j])
  /\ [](Range(resolver.found) \subseteq resolver.visited)
  /\ (cliRun.pc = "resolving") ~> (cliRun.pc \in {"resolved", "failed"})

\* The closure of a layout where a needs b and b needs a.
C20_Witness ==
  /\ cliRun.pc = "resolved"
  /\ layout = CycleLayout
  /\ resolver.found = << <<"a">>, <<"b">> >>
  /\ resolver.stack = <<>>

----------------------------------------------------------------------------
(* Properties of the license violations, of the validation's effects and   *)
(* of the order of the dependencies                                        *)

\* The violations of the three kinds that are about the licenses of a dependency.
LicenseTypes == { INVALID_LICENSE, NO_LICENSE, MULTIPLE_LICENSE }

\* Whether a violation is about the dependency with this packageFqn: its
\* message reads "Dependency <fqn> has ...".
Names(v, fqn) ==
  /\ Len(v.message) >= Len(fqn) + 2
  /\ v.message[1] = "Dependency "
  /\ SubSeq(v.message, 2, Len(fqn) + 1) = fqn
  /\ v.message[Len(fqn) + 2] \in
       { " has an invalid license: ", " has no license", " has multiple licenses: " }

\* The kinds of license violation a validation detected for a dependency.
KindsFor(violations, a) ==
  { violations[i].type : i \in { j \in DOMAIN violations :
                                   /\ violations[j].type \in LicenseTypes
                                   /\ Names(violations[j], a.packageFqn) } }

\* One license, and the allow-list holds it (compared in lower case).
OneAllowedLicense(a) ==
  /\ Len(a.licenses) = 1
  /\ \E j \in DOMAIN config.allowedLicenses :
       ToLowerCase(config.allowedLicenses[j]) = ToLowerCase(a.licenses[1])

\* C21: a validation detects at most one license violation for each
\* attributed dependency, and the number of its licenses decides which:
\* no-license exactly when it has none, multiple-license exactly when it has
\* two or more (allowed or not), invalid-license only when it has exactly
\* one, and none exactly when it has one license that the allow-list holds.
C21_OneLicenseViolationByCount ==
  Validated =>
    /\ \A i \in DOMAIN attr.attributions :
         LET a == attr.attributions[i]
             kinds == KindsFor(last.detected, a)
         IN /\ Cardinality(kinds) <= 1
            /\ NO_LICENSE \in kinds <=> Len(a.licenses) = 0
            /\ MULTIPLE_LICENSE \in kinds <=> Len(a.licenses) >= 2
            /\ INVALID_LICENSE \in kinds => Len(a.licenses) = 1
            /\ kinds = {} <=> OneAllowedLicense(a)
    /\ Cardinality({ j \in DOMAIN last.detected :
                       last.detected[j].type \in LicenseTypes })
         = Cardinality({ i \in DOMAIN attr.attributions :
                           ~OneAllowedLicense(attr.attributions[i]) })

\* Two licenses of which the allow-list holds one, next to a dependency
\* without a license.
C21_Witness ==
  /\ Validated
  /\ \E i, k \in DOMAIN attr.attributions :
       /\ Len(attr.attributions[i].licenses) = 2
       /\ \E n \in 1..2 : \E j \in DOMAIN config.allowedLicenses :
            ToLowerCase(config.allowedLicenses[j])
              = ToLowerCase(attr.attributions[i].licenses[n])
       /\ KindsFor(last.detected, attr.attributions[i]) = {MULTIPLE_LICENSE}
       /\ Len(attr.attributions[k].licenses) = 0
       /\ KindsFor(last.detected, attr.attributions[k]) = {NO_LICENSE}

\* C22: a validation that follows a flush of the same Attributions object
\* detects no violation about the attribution files (missing-licenses,
\* outdated-licenses, missing-versions, outdated-versions; missing-notice
\* and outdated-attributions in the encodeVersions generation), whatever the
\* files held before the flush and whatever the licenses of the dependencies.
C22_FlushThenValidateFindsFilesInOrder ==
  (Validated /\ last.afterFlush) =>
    /\ Types(last.detected) \cap FixableTypes = {}
    /\ last.fixed = <<>>
    /\ disk = last.before

\* attributions.validate() after a flush that wrote both files, with a
\* license violation among the attributions.
C22_Witness ==
  /\ Validated /\ last.afterFlush
  /\ last.op = "validate"
  /\ config.variant = "versionsPath" /\ config.versionsPath
  /\ Types(last.detected) \cap LicenseTypes # {}
  /\ Len(attr.attributions) = 2

\* C23: Attributions.validate reads the attribution files and writes none:
\* the licenses file, the versions file and every other file are after the
\* call what they were before it, also when the report carries fixers.  In
\* a validation of the bundle the files change only when a fixer of the
\* report was invoked, which takes fix.
C23_ValidateReadsOnly ==
  /\ (last.op = "validate") =>
       /\ disk = last.before
       /\ last.fixed = <<>>
  /\ (Validated /\ disk # last.before) =>
       /\ last.fix
       /\ last.fixed # <<>>
       /\ disk = Flush(config, attr, last.before)

\* attributions.validate() returned fixers for two missing files and left
\* them missing.
C23_Witness ==
  /\ last.op = "validate" /\ report.returned
  /\ {MISSING_LICENSES, MISSING_VERSIONS} \subseteq Types(report.violations)
  /\ \A i \in DOMAIN report.violations :
       report.violations[i].type \in FixableTypes => report.violations[i].fix
  /\ ~disk.licenses.exists /\ ~disk.versions.exists

\* No two of the dependencies have one name@version.
DistinctFqn(deps) ==
  \A i, j \in DOMAIN deps : i # j => pkg(deps[i]) # pkg(deps[j])

\* The orders in which the same dependencies can be supplied.
Orderings(deps) ==
  LET shuffles == { f \in [DOMAIN deps -> DOMAIN deps] :
                      \A i, j \in DOMAIN deps : i # j => f[i] # f[j] }
  IN { [i \in DOMAIN deps |-> deps[f[i]]] : f \in shuffles }

\* C24: the document and the versions JSON of a construction do not depend
\* on the order of the dependencies: with pairwise distinct name@version,
\* a construction from the same dependencies in any other order renders
\* the same document and the same versions JSON.
C24_OrderOfDependenciesIrrelevant ==
  (Constructed /\ attr.state = "built" /\ DistinctFqn(dependencies)) =>
    \A other \in Orderings(dependencies) :
      LET again == NewAttributions(config, other)
      IN /\ again.state = "built"
         /\ again.licenses = attr.licenses
         /\ again.versions = attr.versions

\* Two dependencies supplied in the reverse of the order of their blocks.
C24_Witness ==
  /\ Constructed /\ attr.state = "built"
  /\ DistinctFqn(dependencies)
  /\ Len(dependencies) = 2
  /\ attr.attributions # Ordered(attr.attributions)
  /\ Cardinality(Orderings(dependencies)) = 2

====
